---- MODULE Spec2Model ----
(***************************************************************************)
(* Model of the Agent DVR API client (agent/a.py, agent/device.py).        *)
(*                                                                         *)
(* The client keeps a connection-health flag (_conFailed), the time of the *)
(* last failure (disconnected) and a cooldown (reconnect_interval).  Every *)
(* public operation issues one request through Agent._agent_request and    *)
(* mirrors parts of the answer into cached fields.                         *)
(*                                                                         *)
(* Spec     one caller, one request at a time: each operation is one step  *)
(*          (gate, network I/O, classification, cache update).             *)
(* SpecUrl  the constructor's URL normalisation over bounded host strings. *)
(* SpecConc several callers of get_state on one client: a request reads    *)
(*          the flag when it starts and writes it when it completes.       *)
(***************************************************************************)
EXTENDS Integers, Sequences, FiniteSets, TLC

\* ------------------------------------------------------------------ bounds

\* The clock advances in steps of TickSeconds, up to MaxTime.
TickSeconds == 5
MaxTime == 15
\* Host strings are sequences of at most MaxHostLen characters.
MaxHostLen == 4
\* Coroutines that call the client concurrently (SpecConc).
MaxCallers == 2

\* --------------------------------------------------------------- constants

\* Agent.__init__: self.reconnect_interval = 10
reconnect_interval == 10


VARIABLES
    server_host,    \* the host string handed to the constructor
    server_url,     \* Agent._server_url (a raised IndexError leaves none)
    urlpc,          \* "host" | "built" | "rebuilt" | "IndexError"
    conFailed,      \* Agent._conFailed
    disconnected,   \* Agent.disconnected (seconds)
    now,            \* datetime.now() (seconds)
    raw_result,     \* Agent._raw_result, the cached status snapshot
    devices,        \* Agent.devices: the Device objects' cached _raw_result['data']
    locations,      \* Agent.locations
    profiles,       \* Agent.profiles
    timeoutAt,      \* history: time of the latest timeout, until a request is issued
                    \* reconnect_interval or more after it; -1 if none is pending
    suppressed,     \* history: a request was issued inside that timeout's cooldown
    last,           \* history: the call completed by the latest step
    inflight,       \* per caller: "idle", or "flying" while its request awaits the network
    failedAt,       \* history: time of the latest completion that marked the failure; -1 if none
    cleared,        \* history: a request has completed successfully since then
    started         \* history: the call started by the latest step

vars == <<server_host, server_url, urlpc, conFailed, disconnected, now,
          raw_result, devices, locations, profiles, timeoutAt, suppressed, last,
          inflight, failedAt, cleared, started>>

urlVars == <<server_host, server_url, urlpc>>
concVars == <<inflight, failedAt, cleared, started>>
clientVars == <<conFailed, disconnected, now, raw_result, devices, locations,
                profiles, timeoutAt, suppressed, last, concVars>>

\* ------------------------------------------------------- URL normalisation

Chars == {"h", ":", "/"}
RECURSIVE StringsUpTo(_)
StringsUpTo(n) ==
    IF n = 0 THEN {<<>>}
    ELSE LET shorter == StringsUpTo(n - 1)
         IN shorter \cup {Append(s, c) : s \in {x \in shorter : Len(x) = n - 1}, c \in Chars}
Hosts == StringsUpTo(MaxHostLen)

\* Python's server_host[-1]: the last character, IndexError on the empty string.
LastChar(s) ==
    IF Len(s) = 0 THEN [raised |-> "IndexError", val |-> ""]
    ELSE [raised |-> "none", val |-> s[Len(s)]]

\* '{}/'.format(server_host)
FormatSlash(s) == s \o <<"/">>

\* Agent._build_server_url
build_server_url(s) ==
    LET c == LastChar(s)
    IN IF c.raised # "none" THEN [raised |-> c.raised, url |-> <<>>]
       ELSE IF c.val = "/" THEN [raised |-> "none", url |-> s]
       ELSE [raised |-> "none", url |-> FormatSlash(s)]

\* ------------------------------------------------------------- the request

None == [kind |-> "None"]
Json(b) == [kind |-> "json", body |-> b]
Raised == [kind |-> "raise"]

\* What the network gives back to one GET: an exception raised inside the
\* try block (fault), or a response with a content type and a JSON body that
\* may carry an error field.
Faults == {"TimeoutError", "ClientError", "ClientResponseError", "gaierror"}
Response(fault, ctype, err, body) ==
    [fault |-> fault, ctype |-> ctype, error |-> err, body |-> body]
NoBody == [result |-> "none"]
ResponsesWith(bodies) ==
    {Response(f, "", FALSE, NoBody) : f \in Faults}
    \cup {Response("none", "text/html", FALSE, NoBody)}
    \cup {Response("none", "application/json", TRUE, NoBody)}
    \cup {Response("none", "application/json", FALSE, b) : b \in bodies}
\* A request that performs no network I/O gets no answer.
NoAnswer == Response("unasked", "", FALSE, NoBody)
\* The answers a request may meet.
Answers(bodies) == {NoAnswer} \cup ResponsesWith(bodies)

\* The gate with the comparison written <=.
Gated_Inclusive(failed, disc, t) == failed /\ (t - disc) <= reconnect_interval

\* if self._conFailed: if (now - self.disconnected).total_seconds() < self.reconnect_interval
Gated(failed, disc, t) == failed /\ (t - disc) < reconnect_interval

\* The gate raising instead of returning None.
ShortCircuit_Raises(failed, disc) ==
    [conFailed |-> failed, disconnected |-> disc, ret |-> Raised,
     exc |-> "AgentConnectionError", msg |-> "Timeout occurred", netio |-> 0]

\* return None
ShortCircuit(failed, disc) ==
    [conFailed |-> failed, disconnected |-> disc, ret |-> None,
     exc |-> "none", msg |-> "none", netio |-> 0]

\* The timeout handler without self._conFailed = True.
OnTimeout_KeepsFlag(failed, disc, t) ==
    [conFailed |-> failed, disconnected |-> t, ret |-> Raised,
     exc |-> "AgentConnectionError", msg |-> "Timeout occurred", netio |-> 1]

\* except asyncio.TimeoutError
OnTimeout(failed, disc, t) ==
    [conFailed |-> TRUE, disconnected |-> t, ret |-> Raised,
     exc |-> "AgentConnectionError", msg |-> "Timeout occurred", netio |-> 1]

\* The transport-error handler without self.disconnected = datetime.now().
OnClientError_StaleTime(failed, disc, t) ==
    [conFailed |-> TRUE, disconnected |-> disc, ret |-> Raised,
     exc |-> "AgentConnectionError", msg |-> "Error occurred", netio |-> 1]

\* except (aiohttp.ClientError, aiohttp.ClientResponseError, socket.gaierror)
OnClientError(failed, disc, t) ==
    [conFailed |-> TRUE, disconnected |-> t, ret |-> Raised,
     exc |-> "AgentConnectionError", msg |-> "Error occurred", netio |-> 1]

\* The content-type branch without self._conFailed = True.
OnNotJson_KeepsFlag(failed, disc, t) ==
    [conFailed |-> failed, disconnected |-> t, ret |-> Raised,
     exc |-> "AgentError", msg |-> "Unexpected response", netio |-> 1]

\* if "application/json" not in content_type
OnNotJson(failed, disc, t) ==
    [conFailed |-> TRUE, disconnected |-> t, ret |-> Raised,
     exc |-> "AgentError", msg |-> "Unexpected response", netio |-> 1]

\* The error-field branch marking the connection failed like the others.
OnJsonError_MarksFailed(failed, disc, t) ==
    [conFailed |-> TRUE, disconnected |-> t, ret |-> Raised,
     exc |-> "AgentError", msg |-> "Error from the server", netio |-> 1]

\* if json.get('error') is not None
OnJsonError(failed, disc, t) ==
    [conFailed |-> failed, disconnected |-> disc, ret |-> Raised,
     exc |-> "AgentError", msg |-> "Error from the server", netio |-> 1]

\* The success path without self._conFailed = False.
OnJson_KeepsFlag(failed, disc, body) ==
    [conFailed |-> failed, disconnected |-> disc, ret |-> Json(body),
     exc |-> "none", msg |-> "none", netio |-> 1]

\* self._conFailed = False; return json
OnJson(failed, disc, body) ==
    [conFailed |-> FALSE, disconnected |-> disc, ret |-> Json(body),
     exc |-> "none", msg |-> "none", netio |-> 1]

\* Agent._agent_request past the gate: what becomes of the answer resp at time t.
classify(failed, disc, t, resp) ==
    IF resp.fault = "TimeoutError" THEN OnTimeout(failed, disc, t)
    ELSE IF resp.fault # "none" THEN OnClientError(failed, disc, t)
    ELSE IF resp.ctype # "application/json" THEN OnNotJson(failed, disc, t)
    ELSE IF resp.error THEN OnJsonError(failed, disc, t)
    ELSE OnJson(failed, disc, resp.body)

\* Agent._agent_request at time t (datetime.now()), the network answering resp.
agent_request(failed, disc, t, resp) ==
    IF Gated(failed, disc, t) THEN ShortCircuit(failed, disc)
    ELSE classify(failed, disc, t, resp)

\* Agent.get_state
get_state(failed, disc, t, resp) == agent_request(failed, disc, t, resp)

\* Agent.is_available
is_available == ~conFailed

\* ------------------------------------------------------ the cached views

\* The JSON bodies the server answers with, per endpoint.
DeviceRaws ==
    [online : BOOLEAN, recording : BOOLEAN, alertsActive : BOOLEAN, detectorActive : BOOLEAN]
\* The device attributes the server is taken to report.
ServedRaws ==
    {d \in DeviceRaws : d.online = d.detectorActive /\ d.recording = d.alertsActive}
ObjectsBodies ==
    {[locations |-> <<>>, objectList |-> <<>>]}
    \cup {[locations |-> <<"Office">>, objectList |-> <<d>>] : d \in ServedRaws}
ProfilesBodies ==
    {[profiles |-> <<>>],
     [profiles |-> <<[name |-> "home", active |-> TRUE], [name |-> "away", active |-> FALSE]>>]}
StatusBodies == {[kind |-> "status", armed |-> a] : a \in BOOLEAN}
CommandBodies == {[result |-> "ok"]}
EmptyStatus == [kind |-> "empty"]

\* get_devices clearing the list before it looks at the answer.
get_devices_result_Clears(r, devs, locs) ==
    IF r.ret.kind = "raise"
    THEN [devices |-> devs, locations |-> locs, raised |-> TRUE, value |-> <<>>]
    ELSE IF r.ret.kind # "None"
    THEN [devices |-> r.ret.body.objectList, locations |-> r.ret.body.locations,
          raised |-> FALSE, value |-> r.ret.body.objectList]
    ELSE [devices |-> <<>>, locations |-> locs, raised |-> FALSE, value |-> <<>>]

\* Agent.get_devices, after the request: the new list, the locations, what the
\* call returns and whether the request's exception propagates.
get_devices_result(r, devs, locs) ==
    IF r.ret.kind = "raise"
    THEN [devices |-> devs, locations |-> locs, raised |-> TRUE, value |-> <<>>]
    ELSE IF r.ret.kind # "None"
    THEN [devices |-> r.ret.body.objectList, locations |-> r.ret.body.locations,
          raised |-> FALSE, value |-> r.ret.body.objectList]
    ELSE [devices |-> devs, locations |-> locs, raised |-> FALSE, value |-> devs]

\* Agent.get_profiles, after the request.
get_profiles_result(r, profs) ==
    IF r.ret.kind = "raise"
    THEN [profiles |-> profs, raised |-> TRUE, value |-> <<>>]
    ELSE IF r.ret.kind # "None"
    THEN [profiles |-> r.ret.body.profiles, raised |-> FALSE, value |-> r.ret.body.profiles]
    ELSE [profiles |-> profs, raised |-> FALSE, value |-> profs]

\* Agent.update, after the request: if state is not None: self._raw_result = state
update_result(r, raw) ==
    IF r.ret.kind = "json" THEN r.ret.body ELSE raw

\* Agent.arm / Agent.disarm, after the request: nothing follows the await.
arm_result(r, raw) == raw
disarm_result(r, raw) == raw

\* Device.update, after the request: if state is not None: self._raw_result = state
device_update_result(r, dev) ==
    IF r.ret.kind = "json" THEN r.ret.body ELSE dev

\* The Device commands without the `is not None` test.
device_command_result_Unchecked(r, dev, field, val) ==
    IF r.ret.kind # "raise" THEN [dev EXCEPT ![field] = val] ELSE dev

\* Device.enable .. Device.detector_off, after the request:
\* if state is not None: self._raw_result['data'][field] = val
device_command_result(r, dev, field, val) ==
    IF r.ret.kind = "json" THEN [dev EXCEPT ![field] = val] ELSE dev

\* An exception raised by the awaited request leaves the calling method.
Propagates(r) == r.ret.kind = "raise"

\* ---------------------------------------------------------------- history

\* Where the issue time t0 stands against the cooldown of the pending timeout.
Cool(t0) ==
    IF timeoutAt = -1 THEN "none"
    ELSE IF t0 - timeoutAt < reconnect_interval THEN "within"
    ELSE "elapsed"

Outcome(r, resp) ==
    IF r.netio = 0 THEN "gated"
    ELSE IF resp.fault # "none" THEN resp.fault
    ELSE IF resp.ctype # "application/json" THEN "NotJson"
    ELSE IF resp.error THEN "JsonError"
    ELSE "JsonOk"

Idle ==
    [op |-> "none", preFailed |-> FALSE, cool |-> "none", suppressed |-> FALSE,
     netio |-> 0, requests |-> 0, outcome |-> "none", exc |-> "none", msg |-> "none",
     ret |-> "none", echo |-> FALSE, raised |-> FALSE, value |-> <<>>]

\* One request of operation op, issued now and answered with resp; r is what
\* _agent_request makes of it; op raises (raised) or returns value.
Requested(op, resp, r, raised, value) ==
    /\ (r.netio = 0) <=> (resp = NoAnswer)
    /\ conFailed' = r.conFailed
    /\ disconnected' = r.disconnected
    /\ now' = now
    /\ timeoutAt' = IF r.netio = 1 /\ resp.fault = "TimeoutError" THEN now
                    ELSE IF Cool(now) = "elapsed" THEN -1
                    ELSE timeoutAt
    /\ suppressed' = IF r.netio = 1 /\ resp.fault = "TimeoutError" THEN FALSE
                     ELSE IF Cool(now) = "elapsed" THEN FALSE
                     ELSE IF Cool(now) = "within" THEN TRUE
                     ELSE suppressed
    /\ last' = [op |-> op, preFailed |-> conFailed, cool |-> Cool(now),
                suppressed |-> suppressed, netio |-> r.netio, requests |-> 1,
                outcome |-> Outcome(r, resp), exc |-> r.exc, msg |-> r.msg,
                ret |-> r.ret.kind, echo |-> (r.ret = Json(resp.body)),
                raised |-> raised, value |-> value]
    /\ UNCHANGED <<urlVars, concVars>>

\* ---------------------------------------------------------------- actions

\* A caller's Agent.get_state(api_url).
GetState ==
    \E resp \in Answers(CommandBodies) :
        \E r \in {get_state(conFailed, disconnected, now, resp)} :
            /\ Requested("get_state", resp, r, Propagates(r), <<>>)
            /\ UNCHANGED <<raw_result, devices, locations, profiles>>

\* Agent.get_devices
GetDevices ==
    \E resp \in Answers(ObjectsBodies) :
        \E r \in {agent_request(conFailed, disconnected, now, resp)} :
        \E g \in {get_devices_result(r, devices, locations)} :
            /\ Requested("get_devices", resp, r, g.raised, g.value)
            /\ devices' = g.devices
            /\ locations' = g.locations
            /\ UNCHANGED <<raw_result, profiles>>

\* Agent.get_profiles
GetProfiles ==
    \E resp \in Answers(ProfilesBodies) :
        \E r \in {get_state(conFailed, disconnected, now, resp)} :
        \E g \in {get_profiles_result(r, profiles)} :
            /\ Requested("get_profiles", resp, r, g.raised, g.value)
            /\ profiles' = g.profiles
            /\ UNCHANGED <<raw_result, devices, locations>>

\* Agent.update
Update ==
    \E resp \in Answers(StatusBodies) :
        \E r \in {get_state(conFailed, disconnected, now, resp)} :
            /\ Requested("update", resp, r, Propagates(r), <<>>)
            /\ raw_result' = update_result(r, raw_result)
            /\ UNCHANGED <<devices, locations, profiles>>

\* Agent.arm
Arm ==
    \E resp \in Answers(CommandBodies) :
        \E r \in {get_state(conFailed, disconnected, now, resp)} :
            /\ Requested("arm", resp, r, Propagates(r), <<>>)
            /\ raw_result' = arm_result(r, raw_result)
            /\ UNCHANGED <<devices, locations, profiles>>

\* Agent.disarm
Disarm ==
    \E resp \in Answers(CommandBodies) :
        \E r \in {get_state(conFailed, disconnected, now, resp)} :
            /\ Requested("disarm", resp, r, Propagates(r), <<>>)
            /\ raw_result' = disarm_result(r, raw_result)
            /\ UNCHANGED <<devices, locations, profiles>>

\* Device.update on a Device of the client's list
DeviceUpdate ==
    \E i \in 1..Len(devices), resp \in Answers(ServedRaws) :
        \E r \in {get_state(conFailed, disconnected, now, resp)} :
            /\ Requested("Device.update", resp, r, Propagates(r), <<>>)
            /\ devices' = [devices EXCEPT ![i] = device_update_result(r, devices[i])]
            /\ UNCHANGED <<raw_result, locations, profiles>>

\* The eight Device commands share their shape: one get_state, one field.
DeviceCommand(op, field, val) ==
    \E i \in 1..Len(devices), resp \in Answers(CommandBodies) :
        \E r \in {get_state(conFailed, disconnected, now, resp)} :
            /\ Requested(op, resp, r, Propagates(r), <<>>)
            /\ devices' = [devices EXCEPT ![i] = device_command_result(r, devices[i], field, val)]
            /\ UNCHANGED <<raw_result, locations, profiles>>

enable == DeviceCommand("enable", "online", TRUE)
disable == DeviceCommand("disable", "online", FALSE)
record == DeviceCommand("record", "recording", TRUE)
record_stop == DeviceCommand("record_stop", "recording", FALSE)
alerts_on == DeviceCommand("alerts_on", "alertsActive", TRUE)
alerts_off == DeviceCommand("alerts_off", "alertsActive", FALSE)
detector_on == DeviceCommand("detector_on", "detectorActive", TRUE)
detector_off == DeviceCommand("detector_off", "detectorActive", FALSE)

\* Time passes with no call in progress.
Tick ==
    /\ now + TickSeconds <= MaxTime
    /\ now' = now + TickSeconds
    /\ last' = Idle
    /\ UNCHANGED <<urlVars, conFailed, disconnected, raw_result, devices, locations,
                   profiles, timeoutAt, suppressed, concVars>>

Callers == 1..MaxCallers
NotStarted == [caller |-> 0, gated |-> FALSE, since |-> "none", cleared |-> FALSE]

\* Agent.__init__
Constructed ==
    /\ conFailed = FALSE
    /\ disconnected = 0
    /\ now = 0
    /\ raw_result = EmptyStatus
    /\ devices = <<>>
    /\ locations = <<>>
    /\ profiles = <<>>
    /\ timeoutAt = -1
    /\ suppressed = FALSE
    /\ last = Idle
    /\ inflight = [c \in Callers |-> "idle"]
    /\ failedAt = -1
    /\ cleared = FALSE
    /\ started = NotStarted

Init ==
    /\ server_host = <<"h">>
    /\ server_url = build_server_url(server_host).url
    /\ urlpc = "built"
    /\ Constructed

Next ==
    \/ GetState
    \/ GetDevices
    \/ GetProfiles
    \/ Update
    \/ Arm
    \/ Disarm
    \/ DeviceUpdate
    \/ enable
    \/ disable
    \/ record
    \/ record_stop
    \/ alerts_on
    \/ alerts_off
    \/ detector_on
    \/ detector_off
    \/ Tick

Spec == Init /\ [][Next]_vars

\* ------------------------------------------- the constructor's URL (SpecUrl)

InitUrl ==
    /\ server_host \in Hosts
    /\ server_url = <<>>
    /\ urlpc = "host"
    /\ Constructed

\* self._server_url = Agent._build_server_url(server_host)
BuildUrl ==
    /\ urlpc = "host"
    /\ LET b == build_server_url(server_host)
       IN /\ urlpc' = IF b.raised = "none" THEN "built" ELSE b.raised
          /\ server_url' = b.url
    /\ UNCHANGED <<server_host, clientVars>>

\* The normalisation applied to its own result.
RebuildUrl ==
    /\ urlpc = "built"
    /\ LET b == build_server_url(server_url)
       IN /\ urlpc' = IF b.raised = "none" THEN "rebuilt" ELSE b.raised
          /\ server_url' = b.url
    /\ UNCHANGED <<server_host, clientVars>>

NextUrl == BuildUrl \/ RebuildUrl

SpecUrl == InitUrl /\ [][NextUrl]_vars

\* ----------------------------------------- concurrent requests (SpecConc)

\* Where the time t stands against the cooldown of the latest marked failure.
Since(t) ==
    IF failedAt = -1 THEN "none"
    ELSE IF t - failedAt < reconnect_interval THEN "within"
    ELSE "elapsed"

\* The answers after which the code marks the connection failed.
MarksFailure(resp) == resp.fault # "none" \/ resp.ctype # "application/json"

\* Caller c enters _agent_request: the gate is read, and either the call
\* returns None at once or the request goes out and the coroutine awaits it.
Start(c) ==
    /\ inflight[c] = "idle"
    /\ LET gated == Gated(conFailed, disconnected, now)
           r == IF gated THEN ShortCircuit(conFailed, disconnected)
                ELSE [conFailed |-> conFailed, disconnected |-> disconnected]
       IN /\ conFailed' = r.conFailed
          /\ disconnected' = r.disconnected
          /\ inflight' = IF gated THEN inflight ELSE [inflight EXCEPT ![c] = "flying"]
          /\ started' = [caller |-> c, gated |-> gated, since |-> Since(now),
                         cleared |-> cleared]
    /\ UNCHANGED <<urlVars, now, raw_result, devices, locations, profiles,
                   timeoutAt, suppressed, last, failedAt, cleared>>

\* The network answers caller c's request: the rest of _agent_request runs
\* and writes the flag and the failure time as they are then.
Complete(c) ==
    /\ inflight[c] = "flying"
    /\ \E resp \in ResponsesWith(CommandBodies) :
        \E r \in {classify(conFailed, disconnected, now, resp)} :
            /\ conFailed' = r.conFailed
            /\ disconnected' = r.disconnected
            /\ failedAt' = IF MarksFailure(resp) THEN now ELSE failedAt
            /\ cleared' = IF MarksFailure(resp) THEN FALSE
                          ELSE IF resp.error THEN cleared
                          ELSE TRUE
    /\ inflight' = [inflight EXCEPT ![c] = "idle"]
    /\ started' = NotStarted
    /\ UNCHANGED <<urlVars, now, raw_result, devices, locations, profiles,
                   timeoutAt, suppressed, last>>

\* Time passes, whatever is in flight.
TickConc ==
    /\ now + TickSeconds <= MaxTime
    /\ now' = now + TickSeconds
    /\ started' = NotStarted
    /\ UNCHANGED <<urlVars, conFailed, disconnected, raw_result, devices, locations,
                   profiles, timeoutAt, suppressed, last, inflight, failedAt, cleared>>

NextConc ==
    \/ \E c \in Callers : Start(c)
    \/ \E c \in Callers : Complete(c)
    \/ TickConc

SpecConc == Init /\ [][NextConc]_vars

\* ------------------------------------------------------------------ claims

Called == last.op # "none"
Listings == {"get_devices", "get_profiles"}
ConnectionFailures == Faults
Failures == {"AgentConnectionError", "AgentError"}

\* C1: after a request ended in a timeout, every request issued less than
\* reconnect_interval after it performs no network I/O, and the first request
\* issued reconnect_interval or more after it performs network I/O.
C1_CooldownGate ==
    Called =>
        /\ (last.cool = "within" => last.netio = 0)
        /\ (last.cool = "elapsed" => last.netio = 1)

\* A request that went to the network once the cooldown of a timeout had
\* elapsed, after an earlier request had been short-circuited inside it.
C1_Witness ==
    /\ Called
    /\ last.cool = "elapsed"
    /\ last.suppressed
    /\ last.netio = 1

\* C2, as stated: every request yields a parsed JSON value or a failure, a
\* short-circuited request included.
C2_JsonOrFailure ==
    Called => (last.ret = "json" \/ last.exc \in Failures)

\* C2, amended: a request that reaches the network yields a parsed JSON value or
\* raises a failure; a short-circuited request raises nothing and returns None.
C2_JsonFailureOrNone ==
    Called =>
        IF last.outcome = "gated"
        THEN last.ret = "None" /\ last.exc = "none" /\ ~last.raised
        ELSE \/ last.ret = "json" /\ last.exc = "none"
             \/ last.ret = "raise" /\ last.exc \in Failures

\* A short-circuited get_state that returned None.
C2_Witness ==
    /\ last.op = "get_state"
    /\ last.outcome = "gated"
    /\ last.ret = "None"
    /\ last.exc = "none"

\* C3: a request that reached the network and ended in a timeout or a
\* transport error leaves the failed flag set, the failure time at the current
\* time, and raises AgentConnectionError.
C3_ConnectionFailure ==
    (Called /\ last.outcome \in ConnectionFailures) =>
        /\ last.netio = 1
        /\ conFailed
        /\ disconnected = now
        /\ last.exc = "AgentConnectionError"
        /\ last.raised

\* An HTTP error status on a client that was available and whose failure time
\* lay in the past.
C3_Witness ==
    /\ last.outcome = "ClientResponseError"
    /\ ~last.preFailed
    /\ conFailed
    /\ disconnected = now
    /\ now > 0

\* C4: a request answered with a content type other than JSON leaves the failed
\* flag set (is_available false) and raises the unexpected-response AgentError,
\* whatever the flag was before.
C4_ProtocolFailure ==
    (Called /\ last.outcome = "NotJson") =>
        /\ conFailed
        /\ ~is_available
        /\ last.exc = "AgentError"
        /\ last.msg = "Unexpected response"
        /\ last.raised

\* A non-JSON answer to a client that was available.
C4_Witness ==
    /\ last.outcome = "NotJson"
    /\ ~last.preFailed
    /\ ~is_available

\* C5: a request answered with a JSON body carrying an error field changes
\* neither the failed flag nor the failure time, and raises AgentError.
C5_ApplicationFailureKeepsFlag ==
    [][(last'.op # "none" /\ last'.outcome = "JsonError") =>
          /\ conFailed' = conFailed
          /\ disconnected' = disconnected
          /\ last'.exc = "AgentError"
          /\ last'.raised]_vars

\* An error answer to a client that was available, and still is.
C5_Witness ==
    /\ last.outcome = "JsonError"
    /\ ~last.preFailed
    /\ is_available
    /\ last.exc = "AgentError"

\* C6: after a request that ended in an ApplicationFailure the client is
\* available, whatever its state was before the request.
C6_AvailableAfterApplicationFailure ==
    (Called /\ last.outcome = "JsonError") => is_available

\* C7: a request answered with a JSON body without an error field clears the
\* failed flag, so that the next request is not gated, and returns the body.
C7_SuccessClearsFlag ==
    (Called /\ last.outcome = "JsonOk") =>
        /\ ~conFailed
        /\ is_available
        /\ ~Gated(conFailed, disconnected, now)
        /\ last.ret = "json"
        /\ last.echo
        /\ ~last.raised

\* A successful request on a client whose failed flag was set.
C7_Witness ==
    /\ last.outcome = "JsonOk"
    /\ last.preFailed
    /\ is_available
    /\ last.echo

Cached(op) == IF op = "get_devices" THEN devices ELSE profiles

\* C8, as stated: a listing whose request fails or is short-circuited returns an
\* empty collection and raises nothing.
C8_ListingDegradesToEmpty ==
    (last.op \in Listings /\ last.outcome # "JsonOk") =>
        /\ ~last.raised
        /\ last.value = <<>>

\* C8, amended: a listing whose request is short-circuited raises nothing and
\* returns the cached list as it stands; a listing whose request fails raises
\* the request's failure; in both cases the cached lists are left as they were.
C8_ListingKeepsCache ==
    [][(last'.op \in Listings /\ last'.outcome # "JsonOk") =>
          /\ devices' = devices
          /\ locations' = locations
          /\ profiles' = profiles
          /\ IF last'.outcome = "gated"
             THEN ~last'.raised /\ last'.value = Cached(last'.op)
             ELSE last'.raised /\ last'.exc \in Failures]_vars

\* A short-circuited get_devices that returned the list an earlier listing filled.
C8_Witness ==
    /\ last.op = "get_devices"
    /\ last.outcome = "gated"
    /\ ~last.raised
    /\ last.value # <<>>
    /\ last.value = devices

Wanted(op) ==
    CASE op = "enable" -> <<"online", TRUE>>
      [] op = "disable" -> <<"online", FALSE>>
      [] op = "record" -> <<"recording", TRUE>>
      [] op = "record_stop" -> <<"recording", FALSE>>
      [] op = "alerts_on" -> <<"alertsActive", TRUE>>
      [] op = "alerts_off" -> <<"alertsActive", FALSE>>
      [] op = "detector_on" -> <<"detectorActive", TRUE>>
      [] op = "detector_off" -> <<"detectorActive", FALSE>>
DeviceMutators ==
    {"enable", "disable", "record", "record_stop", "alerts_on", "alerts_off",
     "detector_on", "detector_off"}
AgentMutators == {"arm", "disarm"}
ArmedIs(raw, b) == raw.kind = "status" /\ raw.armed = b

\* C9: each mutating operation issues one request; when it succeeds the one
\* cached field it is about holds the requested state and nothing else changes;
\* when it fails or is short-circuited no cached field changes.
C9_MutatorsSetOneField ==
    [][(last'.op \in DeviceMutators \cup AgentMutators) =>
          /\ last'.requests = 1
          /\ locations' = locations /\ profiles' = profiles
          /\ IF last'.outcome # "JsonOk"
             THEN devices' = devices /\ raw_result' = raw_result
             ELSE IF last'.op \in DeviceMutators
             THEN /\ raw_result' = raw_result
                  /\ devices' = [devices EXCEPT
                                   ![1][Wanted(last'.op)[1]] = Wanted(last'.op)[2]]
             ELSE /\ devices' = devices
                  /\ ArmedIs(raw_result', last'.op = "arm")]_vars

LastChars(s) == IF Len(s) = 0 THEN "" ELSE s[Len(s)]

\* C10: a host that does not end in "/" is normalised to the host with one "/"
\* appended, a host that ends in "/" to itself, and normalising the result
\* again changes nothing.
C10_TrailingSlash ==
    /\ urlpc \in {"host", "built", "rebuilt"}
    /\ urlpc \in {"built", "rebuilt"} =>
          server_url = IF LastChars(server_host) = "/" THEN server_host
                       ELSE server_host \o <<"/">>

\* C11, as stated: with several requests in flight, once a request has marked
\* the failure every call that starts before the cooldown has elapsed is gated,
\* however the other requests complete.
C11_GatedWhateverCompletes ==
    (started.caller # 0 /\ started.since = "within") => started.gated

\* C11, amended: a call that starts inside the cooldown of the latest marked
\* failure is gated exactly when no request has completed successfully since
\* that failure; a call that starts once the cooldown has elapsed is not gated.
C11_GatedUnlessCleared ==
    started.caller # 0 =>
        /\ (started.since = "within" => (started.gated <=> ~started.cleared))
        /\ (started.since = "elapsed" => ~started.gated)

\* A call gated inside the cooldown while another caller's request is in flight.
C11_Witness ==
    /\ started.caller # 0
    /\ started.since = "within"
    /\ ~started.cleared
    /\ started.gated
    /\ \E c \in Callers : c # started.caller /\ inflight[c] = "flying"

\* C12: a request short-circuited by the cooldown gate changes no client
\* state: the failed flag, the failure time, the cached status snapshot, the
\* cached device, location and profile lists and the devices' cached attributes
\* are what they were, whichever operation issued it.
C12_GatedChangesNothing ==
    [][(last'.op # "none" /\ last'.outcome = "gated") =>
          /\ last'.netio = 0
          /\ conFailed' = conFailed
          /\ disconnected' = disconnected
          /\ raw_result' = raw_result
          /\ devices' = devices
          /\ locations' = locations
          /\ profiles' = profiles]_vars

\* A short-circuited Device.enable on a device cached as offline, issued later
\* than the failure that set the flag.
C12_Witness ==
    /\ last.op = "enable"
    /\ last.outcome = "gated"
    /\ devices # <<>>
    /\ ~devices[1].online
    /\ conFailed
    /\ disconnected < now

====
